---- MODULE Spec2Model ----
(***************************************************************************)
(* Model of src/fetch.c, the "fetch" applet of apk-tools: fetch_parse,     *)
(* fetch_package and fetch_main.                                           *)
(*                                                                         *)
(* The program is single threaded.  fetch_main is modelled as a state      *)
(* machine over its control points; one call of fetch_package is one       *)
(* atomic step whose possible results (return value, destination          *)
(* directory afterwards, system and library calls made, in order) are      *)
(* computed by the operator fetch_package from the results the external    *)
(* calls can give.                                                         *)
(***************************************************************************)
EXTENDS Integers, Sequences, FiniteSets, TLC

VARIABLES
    flags,      \* fctx->flags, a set of FETCH_* bits
    outdir,     \* fctx->outdir, NULL or a directory
    simulate,   \* apk_flags & APK_SIMULATE
    argv,       \* the package names given on the command line
    pc,         \* control point of fetch_main
    i,          \* loop index of fetch_main
    r,          \* the variable r of fetch_main
    changes,    \* state->change_list_head of the current resolution, as a sequence
    k,          \* position of list_for_each_entry in changes
    fs,         \* the destination directory: path -> size of the file, or ABSENT
    ret,        \* the value fetch_main returned, NONE before it returns
    calls,      \* history: the calls of fetch_package made for argv[i], in short
    last,       \* history: the latest call of fetch_package made for argv[i], in full
    prev,       \* history: the call of fetch_package before the latest, in short
    log,        \* history: the other external calls and messages made for argv[i]
    count,      \* history: database opens and closes, sessions created and released
    failed,     \* history: some external step of the run has failed
    opts,       \* history: the option characters handed to fetch_parse so far
    parsed      \* what the latest call of fetch_parse returned

vars == <<flags, outdir, simulate, argv, pc, i, r, changes, k, fs, ret,
          calls, last, prev, log, count, failed, opts, parsed>>

----------------------------------------------------------------------------
(* Bounds of the model *)

\* longest command line (argc)
MaxArgs == 2
\* longest change list a resolution returns
MaxChanges == 2
\* most options on a command line
MaxOpts == 3
\* number of repository slots scanned (APK_MAX_REPOS of apk_database.h, scaled down)
APK_MAX_REPOS == 3

----------------------------------------------------------------------------
(* Constants of the program *)

FETCH_RECURSIVE == 1
FETCH_STDOUT == 2
FETCH_LINK == 4
STDOUT_FILENO == 1

NULL == "NULL"
NONE == "NONE"
\* size of a path at which lstat fails
ABSENT == -1
\* the results of apk_pkg_version_compare
APK_VERSION_LESS == "LESS"
APK_VERSION_EQUAL == "EQUAL"
APK_VERSION_GREATER == "GREATER"

----------------------------------------------------------------------------
(* The database: names, their package variants, the repositories *)

Pkg(n, v, s, rp) == [name |-> n, version |-> v, size |-> s, repos |-> rp]

\* Variants of name "a" in the order of name->pkgs: versions 1, 3, 2.
\* Variants of name "b": two packages of the same version that differ in size
\* and repositories, with an older one between them.  Name "c" has no variants (pkgs == NULL).
NamePkgs(n) ==
    CASE n = "a" -> << Pkg("a", 1, 1, {0}), Pkg("a", 3, 2, {1, 2}), Pkg("a", 2, 2, {}) >>
      [] n = "b" -> << Pkg("b", 2, 1, {2}), Pkg("b", 1, 1, {1}), Pkg("b", 2, 2, {0, 1}) >>
      [] OTHER   -> << >>

Names == {"a", "b", "c"}

\* name "c" is not in the database before the run: apk_db_get_name hands back a
\* record without variants for it
UnknownNames == {"c"}

\* name "d" has a variant array that is allocated but holds no entry (num == 0)
EmptyListNames == {"d"}

\* line 165: dep.name->pkgs != NULL
PkgsNotNull(n) == NamePkgs(n) # << >> \/ n \in EmptyListNames

Range(s) == { s[j] : j \in DOMAIN s }

Packages == UNION { Range(NamePkgs(n)) : n \in Names }

\* db->repos[i].url is a path of the local file system for these slots
LocalRepos == {0, 2}

\* apk_url_local_file(infile), infile being built from db->repos[i].url
apk_url_local_file(repo) == repo \in LocalRepos

\* apk_pkg_version_compare(a, b): versions are modelled by their rank
apk_pkg_version_compare(a, b) ==
    IF a.version > b.version THEN APK_VERSION_GREATER
    ELSE IF a.version < b.version THEN APK_VERSION_LESS
    ELSE APK_VERSION_EQUAL

----------------------------------------------------------------------------
(* fetch_package *)

\* outfile: "%s/%s-%s.apk" of outdir (or "."), the name and the version
Outfile(dir, pkg) == << IF dir = NULL THEN "." ELSE dir, pkg.name, pkg.version >>

\* the paths of the destination directory the database can name
Paths(dir) == { Outfile(dir, p) : p \in Packages }

\* the sizes of the file a hard link for pkg is made to: the declared size, an
\* empty file, a longer file
FileSizes(pkg) == {0, pkg.size, pkg.size + 1}

\* the sizes of a file found at the place of pkg's artifact before the run, as far
\* as the program tells them apart: the declared size, or another (an empty file)
PreSizes(pkg) == {0, pkg.size}

\* fault: the pre-check compares with > instead of ==
PreCheckLarger(f, outfile, pkg) == f[outfile] # ABSENT /\ f[outfile] > pkg.size

\* lstat(outfile, &st) == 0 && st.st_size == pkg->size
PreCheck(f, outfile, pkg) == f[outfile] # ABSENT /\ f[outfile] = pkg.size

\* fault: the scan keeps the last slot the package is in, not the first
RepoScanLast(pkg, j) ==
    LET S == { x \in j .. APK_MAX_REPOS - 1 : x \in pkg.repos }
    IN  IF S = {} THEN APK_MAX_REPOS ELSE CHOOSE x \in S : \A y \in S : y <= x

\* for (i = 0; i < APK_MAX_REPOS; i++) if (pkg->repos & BIT(i)) break;
RECURSIVE RepoScan(_, _)
RepoScan(pkg, j) ==
    IF j < APK_MAX_REPOS /\ j \notin pkg.repos THEN RepoScan(pkg, j + 1) ELSE j

\* fault: the test of the scan's result is left out
NoRepoSkipped(j) == FALSE

\* fault: the bound of the scan is tested with > instead of >=
NoRepoOffByOne(j) == j > APK_MAX_REPOS

\* if (i >= APK_MAX_REPOS)
NoRepo(j) == j >= APK_MAX_REPOS

\* fault: the simulate flag is not looked at
SimulateIgnored(sim) == FALSE

\* if (apk_flags & APK_SIMULATE)
SimulateActive(sim) == sim

\* fault: only an error of the splice counts, a short count does not
SizeMismatchErrorOnly(n, pkg) == n < 0

\* if (r != pkg->size)
SizeMismatch(n, pkg) == n # pkg.size

\* what a call hands back: the return value, the directory, the calls it made,
\* what apk_istream_splice returned (<< >> when it was not called), and the index
\* of the repository whose url went into infile (<< >> when infile was not built)
Ret(v, f, ops) == [ret |-> v, fs |-> f, ops |-> ops, copied |-> << >>, repo |-> << >>]
Spliced(o, n) == [o EXCEPT !.copied = <<n>>]

\* line 88: snprintf(infile, ..., db->repos[i].url, ...)
Infile(S, j) == { [o EXCEPT !.repo = <<j>>] : o \in S }

\* the descriptor creat returns when it succeeds
NewFd == 3

\* unlink(outfile) at line 122.  Writing to a file, outfile is the path computed
\* at line 66 and the file just created is removed.  Writing to stdout, outfile
\* was never written: the call gets whatever the stack holds, which names some
\* file of the directory or none.
Unlink(fd, outfile, f) ==
    IF fd # STDOUT_FILENO
    THEN { [fs |-> [f EXCEPT ![outfile] = ABSENT], ops |-> <<"unlink">>] }
    ELSE { [fs |-> f, ops |-> <<"unlink_uninit">>] }
         \cup { [fs |-> [f EXCEPT ![p] = ABSENT], ops |-> <<"unlink_uninit">>] :
                p \in { q \in DOMAIN f : f[q] # ABSENT } }

\* lines 116-126: splice, close, compare the count with the declared size.
\* n is what apk_istream_splice returned: the bytes copied (at most pkg->size),
\* or -1 on a read or write error
AfterSplice(fd, outfile, pkg, f, ops, n) ==
    LET f1   == IF fd # STDOUT_FILENO
                THEN [f EXCEPT ![outfile] = IF n < 0 THEN 0 ELSE n]
                ELSE f
        ops1 == ops \o <<"splice", "close_is">>
                    \o (IF fd # STDOUT_FILENO THEN <<"close_fd">> ELSE << >>)
    IN  IF SizeMismatch(n, pkg)
        THEN { Spliced(Ret(-1, u.fs, ops1 \o <<"error_download">> \o u.ops), n) :
               u \in Unlink(fd, outfile, f1) }
        ELSE { Spliced(Ret(0, f1, ops1), n) }

\* lines 110-126: apk_istream_from_url gives NULL or a stream, then the splice
Stream(fd, outfile, pkg, f, ops) ==
    { Ret(-1, f, ops \o <<"open", "error_download">>) }
    \cup UNION { AfterSplice(fd, outfile, pkg, f, ops \o <<"open">>, n) :
                 n \in -1 .. pkg.size }

\* lines 103-108 and on: creat(outfile, 0644) fails, or truncates/creates the file
Creat(outfile, pkg, f, ops) ==
    { Ret(-1, f, ops \o <<"creat", "error_creat">>) }
    \cup Stream(NewFd, outfile, pkg, [f EXCEPT ![outfile] = 0], ops \o <<"creat">>)

\* fault: the result of link() is tested the wrong way round
LinkReturnsOnFailure(res) == res # 0

\* if (link(real_infile, outfile) == 0) return 0;
LinkReturns(res) == res = 0

\* lines 94-102.  readlink gives the real path (n in 1..255), fails (n = -1), or
\* fills the buffer (n = 256); in the last two cases real_infile is not a
\* terminated string the program wrote, and link() is called on it all the same.
\* link() fails (-1), or, outfile being absent, links the file that path names (0);
\* its size s is not the program's to choose.
\* Gives [done, fs, ops]: done when fetch_package returns 0 here.
Link(outfile, pkg, f, ops) ==
    UNION { LET ops1 == ops \o (CASE rl = "ok"   -> <<"readlink", "link">>
                                  [] rl = "fail" -> <<"readlink_fail", "link_uninit">>
                                  [] rl = "full" -> <<"readlink_full", "link_uninit">>)
            IN  { [done |-> LinkReturns(-1), fs |-> f, ops |-> ops1] }
                \cup (IF f[outfile] = ABSENT
                      THEN { [done |-> LinkReturns(0),
                              fs   |-> [f EXCEPT ![outfile] = s],
                              ops  |-> ops1 \o <<"linked">>] : s \in FileSizes(pkg) }
                      ELSE {})
          : rl \in {"ok", "fail", "full"} }

\* static int fetch_package(fctx, db, pkg), with fctx->flags, apk_flags & APK_SIMULATE,
\* fctx->outdir and the destination directory as parameters
fetch_package(fl, sim, dir, pkg, f) ==
    LET tofile  == FETCH_STDOUT \notin fl
        outfile == Outfile(dir, pkg)
    IN  IF tofile /\ PreCheck(f, outfile, pkg)
        THEN { Ret(0, f, <<"lstat">>) }
        ELSE
        LET ops0 == (IF tofile THEN <<"lstat">> ELSE << >>) \o <<"message">>
            repo == RepoScan(pkg, 0)
        IN  IF NoRepo(repo) THEN { Ret(-1, f, ops0 \o <<"error_norepo">>) }
            ELSE IF SimulateActive(sim) THEN { Ret(0, f, ops0) }
            ELSE IF ~tofile THEN Infile(Stream(STDOUT_FILENO, outfile, pkg, f, ops0), repo)
            ELSE IF FETCH_LINK \in fl /\ apk_url_local_file(repo)
            THEN Infile(UNION { IF o.done THEN { Ret(0, o.fs, o.ops) }
                                ELSE Creat(outfile, pkg, o.fs, o.ops) :
                                o \in Link(outfile, pkg, f, ops0) }, repo)
            ELSE Infile(Creat(outfile, pkg, f, ops0), repo)

----------------------------------------------------------------------------
(* fetch_main *)

\* fault: an equal version replaces the choice too
ReplacesNotLess(pkgs, best, j) ==
    best = 0 \/ apk_pkg_version_compare(pkgs[j], pkgs[best]) # APK_VERSION_LESS

\* lines 169-172: pkg == NULL || apk_pkg_version_compare(item[j], pkg) == APK_VERSION_GREATER
\* (best = 0 stands for pkg == NULL)
Replaces(pkgs, best, j) ==
    best = 0 \/ apk_pkg_version_compare(pkgs[j], pkgs[best]) = APK_VERSION_GREATER

\* lines 166-173: the loop over dep.name->pkgs; gives the index of the package kept
RECURSIVE SelectFrom(_, _, _)
SelectFrom(pkgs, j, best) ==
    IF j > Len(pkgs) THEN best
    ELSE SelectFrom(pkgs, j + 1, IF Replaces(pkgs, best, j) THEN j ELSE best)

SelectPkg(pkgs) == pkgs[SelectFrom(pkgs, 1, 0)]

\* sequences without repetition, of length at most n, over the set S
RECURSIVE InjSeqs(_, _)
InjSeqs(S, n) ==
    IF n = 0 THEN { << >> }
    ELSE { << >> } \cup { <<x>> \o t : x \in S, t \in InjSeqs(S, n - 1) }

NoRepeat(s) == \A a, b \in DOMAIN s : s[a] = s[b] => a = b

\* the packages a resolution of the name can list: the name's newest variants and
\* what they depend on
Closure(n) ==
    CASE n = "a" -> { NamePkgs("a")[2], NamePkgs("b")[1] }
      [] n = "b" -> { NamePkgs("b")[1], NamePkgs("b")[3] }
      [] OTHER   -> { NamePkgs("a")[3], NamePkgs("a")[1] }

\* the change lists apk_state_lock_dependency can leave in state->change_list_head
ChangeLists(n) == { s \in InjSeqs(Closure(n), MaxChanges) : NoRepeat(s) }

ArgListsOver(S) == UNION { [1 .. n -> S] : n \in 0 .. MaxArgs }
ArgLists == ArgListsOver(Names)

OutDirs == {NULL, "out"}

InOps(ops, op) == \E j \in DOMAIN ops : ops[j] = op

\* how a call of fetch_package ended
How(o) ==
    IF o.ret # 0 THEN "failed"
    ELSE IF o.ops = <<"lstat">> THEN "present"
    ELSE IF InOps(o.ops, "linked") THEN "linked"
    ELSE IF InOps(o.ops, "splice") THEN "copied"
    ELSE "simulated"

\* one call of fetch_package, as the histories keep it
Call(pkg, o) == [made |-> TRUE, pkg |-> pkg, ret |-> o.ret, how |-> How(o)]
Last(pkg, o, f) ==
    [made |-> TRUE, pkg |-> pkg, ret |-> o.ret, how |-> How(o), ops |-> o.ops,
     copied |-> o.copied, repo |-> o.repo, before |-> f]
NoPkg == Pkg("", 0, 0, {})
NoCall ==
    [made |-> FALSE, pkg |-> NoPkg, ret |-> 0, how |-> "", ops |-> << >>,
     copied |-> << >>, repo |-> << >>, before |-> << >>]
Short(c) == [made |-> c.made, pkg |-> c.pkg, ret |-> c.ret, how |-> c.how]

\* fault: the list is walked from its tail
EntryReverse(cl, n) == cl[Len(cl) + 1 - n]

\* the k-th entry of the change list, as list_for_each_entry walks it
Entry(cl, n) == cl[n]

Init ==
    /\ flags \in SUBSET {FETCH_RECURSIVE, FETCH_STDOUT, FETCH_LINK}
    /\ outdir \in OutDirs
    /\ simulate \in BOOLEAN
    /\ argv \in ArgLists
    /\ \E p \in Packages : \E s \in {ABSENT} \cup PreSizes(p) :
           fs = [q \in Paths(outdir) |-> IF q = Outfile(outdir, p) THEN s ELSE ABSENT]
    /\ pc = "open"
    /\ i = 0
    /\ r = 0
    /\ changes = << >>
    /\ k = 0
    /\ ret = NONE
    /\ calls = << >>
    /\ last = NoCall
    /\ prev = Short(NoCall)
    /\ log = << >>
    /\ count = [opens |-> 0, closes |-> 0, news |-> 0, unrefs |-> 0]
    /\ failed = FALSE
    /\ opts = << >>
    /\ parsed = 0

config == <<flags, outdir, simulate, argv, opts, parsed>>

\* lines 135-137: r = apk_db_open(...); if (r != 0) return r;
DbOpen ==
    /\ pc = "open"
    /\ \E res \in {0, -1} :
        /\ r' = res
        /\ IF res # 0
           THEN pc' = "done" /\ ret' = res /\ count' = count
           ELSE pc' = "loop" /\ ret' = ret /\ count' = [count EXCEPT !.opens = @ + 1]
    /\ UNCHANGED <<config, i, changes, k, fs, calls, last, prev, log, failed>>

\* fault: only a positive result counts as a failure
FailedPositive(res) == res > 0

\* where a failed step goes: if (r != 0) goto err;
Failed(res) == res # 0

\* lines 145-156: recursive mode, apk_state_new and apk_state_lock_dependency
LockDependency ==
    /\ pc = "loop" /\ i < Len(argv) /\ FETCH_RECURSIVE \in flags
    /\ \/ /\ r' = -1
          /\ log' = log \o <<"get_name", "state_new", "lock", "state_unref", "error_install">>
          /\ count' = [count EXCEPT !.news = @ + 1, !.unrefs = @ + 1]
          /\ failed' = TRUE
          /\ pc' = IF Failed(-1) THEN "err" ELSE "changes"
          /\ changes' = << >>
          /\ k' = 1
       \/ \E cl \in ChangeLists(argv[i + 1]) :
          /\ r' = 0
          /\ log' = log \o <<"get_name", "state_new", "lock">>
          /\ count' = [count EXCEPT !.news = @ + 1]
          /\ failed' = failed
          /\ changes' = cl
          /\ k' = 1
          /\ pc' = "changes"
    /\ UNCHANGED <<config, i, fs, ret, calls, last, prev>>

\* lines 158-162: one round of list_for_each_entry
FetchChange ==
    /\ pc = "changes" /\ k <= Len(changes)
    /\ \E o \in fetch_package(flags, simulate, outdir, Entry(changes, k), fs) :
        /\ r' = o.ret
        /\ fs' = o.fs
        /\ calls' = Append(calls, Call(Entry(changes, k), o))
        /\ last' = Last(Entry(changes, k), o, fs)
        /\ prev' = IF last.made THEN Short(last) ELSE prev
        /\ failed' = (failed \/ o.ret # 0)
        /\ IF Failed(o.ret)
           THEN pc' = "err" /\ k' = k
           ELSE pc' = pc /\ k' = k + 1
    /\ UNCHANGED <<config, i, changes, ret, log, count>>

\* line 164: the list is done, apk_state_unref
EndChanges ==
    /\ pc = "changes" /\ k > Len(changes)
    /\ log' = Append(log, "state_unref")
    /\ count' = [count EXCEPT !.unrefs = @ + 1]
    /\ pc' = "next"
    /\ UNCHANGED <<config, i, r, changes, k, fs, ret, calls, last, prev, failed>>

\* lines 165-177: the name has variants; pick one and fetch it
FetchLatest ==
    /\ pc = "loop" /\ i < Len(argv) /\ FETCH_RECURSIVE \notin flags
    /\ PkgsNotNull(argv[i + 1])
    /\ IF SelectFrom(NamePkgs(argv[i + 1]), 1, 0) = 0
       THEN \* pkg is still NULL after the loop: fetch_package(fctx, &db, NULL)
            \* reads pkg->name and the process ends on the fault
            /\ log' = log \o <<"get_name", "fetch_package_null">>
            /\ pc' = "fault"
            /\ UNCHANGED <<r, fs, calls, last, prev, failed>>
       ELSE LET pkg == SelectPkg(NamePkgs(argv[i + 1]))
            IN  \E o \in fetch_package(flags, simulate, outdir, pkg, fs) :
                 /\ r' = o.ret
                 /\ fs' = o.fs
                 /\ calls' = Append(calls, Call(pkg, o))
                 /\ last' = Last(pkg, o, fs)
                 /\ prev' = IF last.made THEN Short(last) ELSE prev
                 /\ failed' = (failed \/ o.ret # 0)
                 /\ pc' = IF Failed(o.ret) THEN "err" ELSE "next"
                 /\ log' = Append(log, "get_name")
    /\ UNCHANGED <<config, i, changes, k, ret, count>>

\* lines 178-182: dep.name->pkgs == NULL
NoVariants ==
    /\ pc = "loop" /\ i < Len(argv) /\ FETCH_RECURSIVE \notin flags
    /\ ~PkgsNotNull(argv[i + 1])
    /\ r' = -1
    /\ log' = log \o <<"get_name", "message_unable">>
    /\ failed' = TRUE
    /\ pc' = "err"
    /\ UNCHANGED <<config, i, changes, k, fs, ret, calls, last, prev, count>>

\* line 139: i++ and the next round of the loop; the histories start again
NextArg ==
    /\ pc = "next"
    /\ i' = i + 1
    /\ pc' = "loop"
    /\ changes' = << >>
    /\ k' = 0
    /\ calls' = << >>
    /\ last' = NoCall
    /\ prev' = IF last.made THEN Short(last) ELSE prev
    /\ log' = << >>
    /\ UNCHANGED <<config, r, fs, ret, count, failed>>

\* fault: the error label returns without closing the database
DbLeftOpen(c) == c

\* line 186: apk_db_close(&db)
DbClosed(c) == [c EXCEPT !.closes = @ + 1]

\* lines 185-187, reached by goto err, by break and by the end of the loop
DbClose ==
    /\ pc = "err" \/ (pc = "loop" /\ i >= Len(argv))
    /\ count' = DbClosed(count)
    /\ ret' = r
    /\ pc' = "done"
    /\ UNCHANGED <<config, i, r, changes, k, fs, calls, last, prev, log, failed>>

Next ==
    \/ DbOpen
    \/ LockDependency
    \/ FetchChange
    \/ EndChanges
    \/ FetchLatest
    \/ NoVariants
    \/ NextArg
    \/ DbClose

Spec == Init /\ [][Next]_vars

\* the same run over a database that also holds a name whose variant array is
\* allocated and empty
InitEmptyList ==
    /\ flags \in SUBSET {FETCH_RECURSIVE, FETCH_STDOUT, FETCH_LINK}
    /\ outdir \in OutDirs
    /\ simulate \in BOOLEAN
    /\ argv \in ArgListsOver(Names \cup EmptyListNames)
    /\ fs = [q \in Paths(outdir) |-> ABSENT]
    /\ pc = "open"
    /\ i = 0
    /\ r = 0
    /\ changes = << >>
    /\ k = 0
    /\ ret = NONE
    /\ calls = << >>
    /\ last = NoCall
    /\ prev = Short(NoCall)
    /\ log = << >>
    /\ count = [opens |-> 0, closes |-> 0, news |-> 0, unrefs |-> 0]
    /\ failed = FALSE
    /\ opts = << >>
    /\ parsed = 0

SpecEmptyList == InitEmptyList /\ [][Next]_vars

----------------------------------------------------------------------------
(* fetch_parse and fetch_options *)

\* lines 190-195: the table fetch_options; has_arg is required_argument
fetch_options ==
    { [name |-> "link",      has_arg |-> FALSE, val |-> "l"],
      [name |-> "recursive", has_arg |-> FALSE, val |-> "R"],
      [name |-> "stdout",    has_arg |-> FALSE, val |-> "s"],
      [name |-> "output",    has_arg |-> TRUE,  val |-> "o"] }

\* the option character registered under a long name
Registered(name) == (CHOOSE o \in fetch_options : o.name = name).val

\* lines 31-52: fetch_parse(ctx, optch, optindex, optarg)
fetch_parse(ctx, optch, optarg) ==
    CASE optch = "R" -> [flags |-> ctx.flags \cup {FETCH_RECURSIVE}, outdir |-> ctx.outdir, ret |-> 0]
      [] optch = "s" -> [flags |-> ctx.flags \cup {FETCH_STDOUT}, outdir |-> ctx.outdir, ret |-> 0]
      [] optch = "L" -> [flags |-> ctx.flags \cup {FETCH_LINK}, outdir |-> ctx.outdir, ret |-> 0]
      [] optch = "o" -> [flags |-> ctx.flags, outdir |-> optarg, ret |-> 0]
      [] OTHER       -> [flags |-> ctx.flags, outdir |-> ctx.outdir, ret |-> -1]

\* the characters a command line can present: the registered ones, the ones
\* fetch_parse has a case for, and one that is neither
OptChars == { o.val : o \in fetch_options } \cup {"R", "s", "L", "o"} \cup {"x"}

\* the argument that comes with an option character
OptArgs(optch) ==
    IF \E o \in fetch_options : o.val = optch /\ o.has_arg THEN {"out", "tmp"} ELSE {NULL}

\* the context the applet starts from: calloc'ed, no flag, no directory
InitParse ==
    /\ flags = {}
    /\ outdir = NULL
    /\ simulate = FALSE
    /\ argv = << >>
    /\ fs = [q \in Paths(outdir) |-> ABSENT]
    /\ pc = "open"
    /\ i = 0
    /\ r = 0
    /\ changes = << >>
    /\ k = 0
    /\ ret = NONE
    /\ calls = << >>
    /\ last = NoCall
    /\ prev = Short(NoCall)
    /\ log = << >>
    /\ count = [opens |-> 0, closes |-> 0, news |-> 0, unrefs |-> 0]
    /\ failed = FALSE
    /\ opts = << >>
    /\ parsed = 0

\* one option of the command line is handed to fetch_parse
ParseOption ==
    /\ Len(opts) < MaxOpts
    /\ \E optch \in OptChars : \E optarg \in OptArgs(optch) :
        LET res == fetch_parse([flags |-> flags, outdir |-> outdir], optch, optarg)
        IN  /\ flags' = res.flags
            /\ outdir' = res.outdir
            /\ parsed' = res.ret
            /\ opts' = Append(opts, optch)
    /\ UNCHANGED <<simulate, argv, pc, i, r, changes, k, fs, ret, calls, last,
                   prev, log, count, failed>>

NextParse == ParseOption

SpecParse == InitParse /\ [][NextParse]_vars

----------------------------------------------------------------------------
(* Properties *)

ToFile == FETCH_STDOUT \notin flags
LastOut == Outfile(outdir, last.pkg)
Did(op) == InOps(last.ops, op)

\* C1  Size-exactness.  A call of fetch_package that writes to a file and gets as
\* far as the splice fails and leaves no file at the destination path when the
\* count copied differs from the declared size; it succeeds only when the count
\* equals the declared size.
C1_SizeExactness ==
    (last.made /\ ToFile /\ last.copied # << >>) =>
        /\ (last.copied[1] # last.pkg.size => (last.ret # 0 /\ fs[LastOut] = ABSENT))
        /\ (last.ret = 0 => last.copied[1] = last.pkg.size)

\* a short copy (1 byte of 2) onto a file that was there before: failure, file gone
C1_Witness ==
    /\ last.made /\ ToFile /\ last.copied = <<1>> /\ last.pkg.size = 2
    /\ last.before[LastOut] # ABSENT
    /\ last.ret = -1 /\ fs[LastOut] = ABSENT

\* C2  No partial artifact on stream-open failure.  When fetch_package has created
\* the destination file and apk_istream_from_url then gives NULL, it returns
\* failure and the file is gone when it returns.
C2_NoPartialOnOpenFailure ==
    (last.made /\ Did("creat") /\ ~Did("error_creat") /\ Did("open") /\ ~Did("splice")) =>
        (last.ret # 0 /\ fs[LastOut] = ABSENT)

\* C3  Idempotent skip.  Writing to a file, with a file of the declared size at the
\* destination path, fetch_package returns 0 having done nothing but the lstat;
\* so the fetch of a package right after a fetch that copied the same package
\* opens no stream and copies nothing.
C3_IdempotentSkip ==
    /\ (last.made /\ ToFile /\ last.before[LastOut] = last.pkg.size) =>
           (last.ret = 0 /\ last.ops = <<"lstat">> /\ fs = last.before)
    /\ (last.made /\ ToFile /\ prev.made /\ prev.pkg = last.pkg /\ prev.how = "copied") =>
           (last.ret = 0 /\ ~Did("open") /\ ~Did("splice") /\ ~Did("creat"))

\* the same package fetched twice in a row, copied the first time
C3_Witness ==
    /\ last.made /\ ToFile /\ prev.made /\ prev.pkg = last.pkg /\ prev.how = "copied"
    /\ last.how = "present"

\* C4  Abort on first failure and exit status.  Once the database is open,
\* fetch_main returns 0 exactly when every name was processed and no step failed;
\* after a failed step no further fetch is made, no later name is taken up, and
\* the value returned is not 0.
C4_AbortOnFirstFailure ==
    /\ []((pc = "done" /\ count.opens = 1) => (ret = 0 <=> (i = Len(argv) /\ ~failed)))
    /\ [][failed => (calls' = calls /\ i' = i /\ (pc' = "done" => ret' # 0))]_vars

\* a failed fetch for the first of two names ended the run
C4_Witness ==
    /\ pc = "done" /\ count.opens = 1 /\ failed /\ last.made /\ last.ret # 0
    /\ Len(argv) = 2 /\ i = 0 /\ ret # 0

\* C5  Recursive ordering.  In recursive mode the calls of fetch_package made for
\* a name are, in order, a prefix of the change list; every call but the latest
\* succeeded; the whole list is fetched when the name is done; after a failed
\* call there is no further call.
C5_RecursiveOrdering ==
    /\ [](FETCH_RECURSIVE \in flags =>
            /\ Len(calls) <= Len(changes)
            /\ \A j \in 1 .. Len(calls) :
                  /\ calls[j].pkg = changes[j]
                  /\ (j < Len(calls) => calls[j].ret = 0)
            /\ (pc = "next" => Len(calls) = Len(changes)))
    /\ [][failed => calls' = calls]_vars

\* the first of two changes failed, the second was never fetched, a name was left
C5_Witness ==
    /\ FETCH_RECURSIVE \in flags /\ pc = "done" /\ count.opens = 1
    /\ Len(changes) = 2 /\ Len(calls) = 1 /\ calls[1].ret # 0
    /\ changes[1] # changes[2] /\ i + 1 < Len(argv)

\* C6  Version selection.  In non-recursive mode, for a name with variants, one
\* fetch is made, of a variant than which no variant compares GREATER, and which
\* is the earliest such in the list.
C6_VersionSelection ==
    /\ (FETCH_RECURSIVE \notin flags => Len(calls) <= 1)
    /\ (/\ FETCH_RECURSIVE \notin flags /\ count.opens = 1
        /\ pc \in {"next", "err", "done"} /\ i < Len(argv)
        /\ NamePkgs(argv[i + 1]) # << >>) =>
           LET pkgs == NamePkgs(argv[i + 1])
           IN  /\ Len(calls) = 1
               /\ \E b \in DOMAIN pkgs :
                     /\ pkgs[b] = calls[1].pkg
                     /\ \A j \in DOMAIN pkgs :
                           apk_pkg_version_compare(pkgs[j], pkgs[b]) # APK_VERSION_GREATER
                     /\ \A j \in 1 .. (b - 1) :
                           apk_pkg_version_compare(pkgs[b], pkgs[j]) = APK_VERSION_GREATER

\* name "b": of the two variants of the greatest version the first was fetched
C6_Witness ==
    /\ FETCH_RECURSIVE \notin flags /\ pc = "next" /\ argv[i + 1] = "b"
    /\ Len(calls) = 1 /\ calls[1].pkg = NamePkgs("b")[1]

\* C7 as stated.  A package in no repository: the call fails, whatever the
\* configuration and the directory, and attempts no open, creat or link.
C7_EmptyReposAlwaysFails ==
    (last.made /\ last.pkg.repos = {}) =>
        /\ last.ret # 0
        /\ ~Did("open") /\ ~Did("creat") /\ ~Did("link") /\ ~Did("link_uninit")

\* C7 as amended.  A package in no repository: no open, creat or link is attempted
\* and the directory is left as it was; the call succeeds when, writing to a file,
\* a file of the declared size is at the destination path already, and otherwise
\* fails with the not-in-any-repository error and the run is aborted.
C7_EmptyReposFailsUnlessPresent ==
    (last.made /\ last.pkg.repos = {}) =>
        /\ ~Did("open") /\ ~Did("creat") /\ ~Did("link") /\ ~Did("link_uninit")
        /\ fs = last.before
        /\ IF ToFile /\ last.before[LastOut] = last.pkg.size
           THEN last.ret = 0
           ELSE /\ last.ret # 0 /\ Did("error_norepo")
                /\ pc \in {"err", "done"}
                /\ (pc = "done" => ret # 0)

\* the run ended on the not-in-any-repository error
C7_Witness ==
    /\ last.made /\ last.pkg.repos = {} /\ Did("error_norepo")
    /\ pc = "done" /\ ret # 0 /\ ~simulate

\* C8  Simulate mode has no effects.  With the simulate flag on, a call of
\* fetch_package creates, links, unlinks, opens and copies nothing, and returns 0
\* for a package that is in a repository.
C8_SimulateNoEffects ==
    (simulate /\ last.made) =>
        /\ fs = last.before
        /\ ~Did("creat") /\ ~Did("link") /\ ~Did("link_uninit") /\ ~Did("linked")
        /\ ~Did("unlink") /\ ~Did("unlink_uninit") /\ ~Did("open") /\ ~Did("splice")
        /\ (last.pkg.repos # {} => last.ret = 0)

\* a simulated fetch, in link mode, of a package whose file is not there
C8_Witness ==
    /\ simulate /\ last.made /\ last.how = "simulated" /\ ToFile
    /\ FETCH_LINK \in flags /\ fs[LastOut] = ABSENT

\* C9  Hardlink fast path precedence.  In link mode, writing to a file, when the
\* hard link is made fetch_package returns 0 without creat, stream open or copy.
C9_HardlinkPrecedence ==
    (last.made /\ FETCH_LINK \in flags /\ ToFile /\ Did("linked")) =>
        (last.ret = 0 /\ ~Did("creat") /\ ~Did("open") /\ ~Did("splice"))

\* a hard link made from the path readlink resolved
C9_Witness ==
    /\ last.made /\ FETCH_LINK \in flags /\ ToFile
    /\ Did("readlink") /\ Did("linked") /\ last.ret = 0 /\ fs[LastOut] # ABSENT

\* C10  Successful fetch implies declared size on disk.  Outside simulate and
\* stdout mode, when fetch_package returns 0 the file at the destination path has
\* the declared size.  (Stated for the calls in which link() got a path the
\* program wrote: it fails there already.)
C10_SuccessImpliesDeclaredSize ==
    (last.made /\ ~simulate /\ ToFile /\ last.ret = 0 /\ ~Did("link_uninit")) =>
        fs[LastOut] = last.pkg.size

\* C11  Database handle lifecycle.  The database is opened at most once; when the
\* open succeeds it is closed once, at the return of fetch_main, on every path,
\* and no fetch is made after the close; when the open fails there is no close
\* and no fetch, and the value of the open is what fetch_main returns.
C11_DbLifecycle ==
    /\ [](/\ count.opens <= 1
          /\ count.closes <= count.opens
          /\ (pc # "done" => (count.closes = 0 /\ ret = NONE))
          /\ (count.opens = 0 => (~last.made /\ ~prev.made /\ calls = << >>))
          /\ (pc = "done" =>
                IF count.opens = 1 THEN count.closes = 1
                ELSE count.closes = 0 /\ ret = r /\ ret # 0))
    /\ [][count.closes = 1 => (calls' = calls /\ last' = last /\ count' = count)]_vars

\* the database was closed on the path of a failed fetch
C11_Witness ==
    /\ pc = "done" /\ count.opens = 1 /\ count.closes = 1
    /\ last.made /\ last.ret # 0 /\ ret # 0

\* C12  Link option takes effect.  The character fetch_options registers for
\* "link" is accepted by fetch_parse (0 is returned) and sets FETCH_LINK; every
\* character registered is handled and sets its own flag, or the output
\* directory, and nothing else of the context.
C12_RegisteredOptionsHandled ==
    [][opts' # opts =>
        LET optch == opts'[Len(opts')]
        IN  /\ (optch = Registered("link") =>
                   (parsed' = 0 /\ flags' = flags \cup {FETCH_LINK} /\ outdir' = outdir))
            /\ (optch = Registered("recursive") =>
                   (parsed' = 0 /\ flags' = flags \cup {FETCH_RECURSIVE} /\ outdir' = outdir))
            /\ (optch = Registered("stdout") =>
                   (parsed' = 0 /\ flags' = flags \cup {FETCH_STDOUT} /\ outdir' = outdir))
            /\ (optch = Registered("output") =>
                   (parsed' = 0 /\ flags' = flags /\ outdir' # NULL))]_vars

\* C13  Repository locator.  The repository whose url goes into infile is a slot
\* below APK_MAX_REPOS the package is in, and no slot the package is in has a
\* lower index; infile is built from it whenever a package that is in a
\* repository gets past the pre-check and the simulate test.
C13_LowestRepository ==
    last.made =>
        /\ (last.repo # << >> =>
               /\ last.repo[1] \in last.pkg.repos
               /\ last.repo[1] \in 0 .. (APK_MAX_REPOS - 1)
               /\ \A j \in last.pkg.repos : last.repo[1] <= j)
        /\ ((last.pkg.repos # {} /\ ~simulate /\ last.how # "present") =>
               last.repo # << >>)

\* a package in repositories 1 and 2 is fetched from repository 1
C13_Witness ==
    /\ last.made /\ last.pkg.repos = {1, 2} /\ last.repo = <<1>> /\ Did("open")

\* C14  No-variants abort.  In non-recursive mode a name without variants (the
\* array absent, or allocated with no entry) gets the message, a non-zero
\* result, no fetch and no later name; fetch_package is not called with NULL.
C14_NoVariantsAbort ==
    (/\ FETCH_RECURSIVE \notin flags /\ count.opens = 1
     /\ i < Len(argv) /\ NamePkgs(argv[i + 1]) = << >>) =>
        /\ calls = << >>
        /\ ~InOps(log, "fetch_package_null")
        /\ pc \in {"loop", "err", "done"}
        /\ (pc # "loop" => (InOps(log, "message_unable") /\ r # 0))

\* C15  Lookup precedes both branches.  For a name unknown to the database, in
\* either mode, the run aborts with a non-zero result before any session is
\* created or locked and before any fetch, and no later name is taken up.
C15_UnknownNameAbortsAtLookup ==
    (count.opens = 1 /\ i < Len(argv) /\ argv[i + 1] \in UnknownNames) =>
        /\ ~InOps(log, "state_new") /\ ~InOps(log, "lock")
        /\ calls = << >>
        /\ pc \in {"loop", "err", "done"}
        /\ (pc # "loop" => r # 0)

\* C16  Descriptors and streams are closed on every path.  When fetch_package
\* has returned, the stream it opened is closed, the descriptor creat gave is
\* closed, and stdout is not closed.
C16_ClosedOnEveryPath ==
    last.made =>
        /\ (Did("splice") => Did("close_is"))
        /\ ((Did("creat") /\ ~Did("error_creat")) => Did("close_fd"))
        /\ (~ToFile => ~Did("close_fd"))

\* C17  Resolution session release.  Whenever a name is about to be taken up and
\* when fetch_main has returned, every session created has been released, and
\* none is released twice.
C17_SessionReleased ==
    /\ count.unrefs <= count.news
    /\ (pc \in {"loop", "done"} => count.unrefs = count.news)

\* C18  Hardlink fallback.  In link mode a hard link is made only from the path a
\* successful readlink gave; when readlink fails or fills the buffer, or link
\* fails, no hard link is made, no error is reported for it, and the file is
\* created and the stream opened.
C18_HardlinkFallback ==
    (last.made /\ FETCH_LINK \in flags /\ ToFile) =>
        /\ (Did("linked") => Did("readlink"))
        /\ ((Did("readlink_fail") \/ Did("readlink_full")) =>
               (~Did("linked") /\ Did("creat")))
        /\ (((Did("link") \/ Did("link_uninit")) /\ ~Did("linked")) =>
               (Did("creat") /\ (Did("error_download") => Did("open"))))

\* C19 as stated.  With the simulate flag on every call of fetch_package returns
\* 0, whatever the package, and a run in which every name resolves returns 0.
C19_SimulateAlwaysSucceeds ==
    /\ ((simulate /\ last.made) => last.ret = 0)
    /\ ((/\ simulate /\ pc = "done" /\ count.opens = 1
         /\ ~InOps(log, "message_unable") /\ ~InOps(log, "error_install")) => ret = 0)

\* C19 as amended.  With the simulate flag on a call of fetch_package returns 0
\* exactly when the package is in a repository or, writing to a file, a file of
\* the declared size is at the destination path; a run in which every name
\* resolves returns non-zero only on the not-in-any-repository error.
C19_SimulateSucceedsIfInRepository ==
    /\ ((simulate /\ last.made) =>
           (last.ret = 0 <=>
               (last.pkg.repos # {} \/ (ToFile /\ last.before[LastOut] = last.pkg.size))))
    /\ ((/\ simulate /\ pc = "done" /\ count.opens = 1 /\ ret # 0
         /\ ~InOps(log, "message_unable") /\ ~InOps(log, "error_install")) =>
           (last.made /\ last.pkg.repos = {} /\ Did("error_norepo")))

\* a simulated run ended on a package that is in no repository
C19_Witness ==
    /\ simulate /\ last.made /\ last.pkg.repos = {} /\ last.ret # 0
    /\ pc = "done" /\ ret # 0

\* C20  Stdout mode leaves the filesystem unchanged.  Writing to stdout,
\* fetch_package creates, links, truncates and removes nothing, on the path of a
\* size mismatch too, and hands no path it never computed to a filesystem call.
C20_StdoutLeavesFilesystem ==
    (last.made /\ ~ToFile) =>
        /\ fs = last.before
        /\ ~Did("lstat") /\ ~Did("creat") /\ ~Did("link") /\ ~Did("link_uninit")
        /\ ~Did("linked") /\ ~Did("unlink") /\ ~Did("unlink_uninit")

====
